---- MODULE Spec2Model ----
\* Model of convert.py: the batch audio converter (process_files and the
\* conversion ledger ".convert.lock").
\*
\* The file system is an input directory "in" with one subdirectory "in/sub",
\* and an output directory "out".  A path is a record [dir, stem, ext]; a
\* file's content is a record that remembers which original file it stems from
\* and what ffprobe would report for it.
EXTENDS Integers, Sequences, FiniteSets, TLC

VARIABLES
  fs,                   \* the files on disk: path -> content
  dirs,                 \* the directories on disk that matter: input and output
  lockFile,             \* the ledger file .convert.lock: [kind, data]
  pc,                   \* position of the process
  run,                  \* number of runs started (also the clock of timestamps)
  req,                  \* arguments of the current run of process_files
  todo,                 \* files of the walk not visited yet
  converted_files_info, \* the ledger as loaded at the start of the run
  new_conversions,      \* ledger entries produced by this run
  file_count,           \* extension -> count
  converted_files, skipped_files, failed_files, correct_files,
  cur,                  \* replace mode: the conversion in progress
  lock_data,            \* update_lock_file: the merged ledger being written
  env,                  \* "faulty": ffprobe may fail; "clean": it never does
  hist                  \* history of the run (observations, not program state)

vars == <<fs, dirs, lockFile, pc, run, req, todo, converted_files_info, new_conversions,
          file_count, converted_files, skipped_files, failed_files, correct_files,
          cur, lock_data, env, hist>>

-----------------------------------------------------------------------------
\* Bounds of the model

MaxFiles == 2     \* files on disk before the first run
MaxRuns == 2      \* runs of the program in one behaviour
MaxLedger == 1    \* entries of the ledger file before the first run
MaxRerunFiles == 1 \* files of the tree when the program is run repeatedly

-----------------------------------------------------------------------------
\* Values

None == "None"

\* line 387 (the model keeps two of the eight audio extensions)
AudioExt == {"mp3", "flac"}
\* line 458 (one of the seven sidecar extensions)
SidecarExt == {"jpg"}
\* an extension of neither set
OtherExt == {"txt"}

\* lines 193, 198 (two of the formats, two of the bitrates)
valid_formats == {"mp3", "flac"}
valid_bitrates == {"128k", "192k"}

\* the bit rate ffmpeg encodes for -b:a b
BitsPerSecond(b) == IF b = "128k" THEN 128000 ELSE 192000

input_path == "in"
OutDir == "out"
\* a subdirectory of the input directory, and its name relative to it
InSub == "in/sub"
SubName == "sub"
\* an argument that names no directory
NoDir == "nodir"
\* the input directory spelled as an absolute path
AbsInput == "/cwd/in"

\* the directory of the tree that a path given on the command line names
Resolve(p) == IF p = AbsInput THEN input_path ELSE p

\* os.path.relpath(root, input_path), line 378
relative_path(root) == IF root = input_path THEN "." ELSE SubName

\* os.path.join(output_path, relative_path), line 379 (normalised: "out/." is
\* the directory "out")
join(a, b) == IF b = "." THEN a ELSE a \o "/" \o b

Path(d, s, e) == [dir |-> d, stem |-> s, ext |-> e]

EmptyFn == [x \in {} |-> None]

\* content of an original file of the tree: ffprobe reports its extension as the
\* format name and 128000 bit/s
Orig(p) == [of |-> p, format_name |-> <<p.ext>>, bit_rate |-> 128000, kind |-> "orig"]

\* content ffmpeg writes for source content c, format fmt and bitrate b
Encoded(c, fmt, b, k) ==
  [of |-> c.of, format_name |-> <<fmt>>, bit_rate |-> BitsPerSecond(b), kind |-> k]

Write(f, p, c) == [q \in (DOMAIN f) \cup {p} |-> IF q = p THEN c ELSE f[q]]
Remove(f, p) == [q \in (DOMAIN f) \ {p} |-> f[q]]

-----------------------------------------------------------------------------
\* Ledger file

\* a ledger entry as json gives it back: a dict, or a value that is no dict
\* ("str": truthy, "null": falsy)
Entry(fmt, b, ts, st) ==
  [type |-> "dict", format |-> fmt, bitrate |-> b, timestamp |-> ts, status |-> st]
NonDictEntry(t) ==
  [type |-> t, format |-> None, bitrate |-> None, timestamp |-> 0, status |-> None]

LockFileOf(k, d) == [kind |-> k, data |-> d]

\* read_lock_file: the parsed value, {} when the file is missing or json.load
\* raises
read_lock_file(lf) ==
  CASE lf.kind = "object"    -> [isdict |-> TRUE, data |-> lf.data]
    [] lf.kind = "nonobject" -> [isdict |-> FALSE, data |-> EmptyFn]
    [] OTHER                 -> [isdict |-> TRUE, data |-> EmptyFn]

\* faulty variant: the entries already present win
DictUpdate_KeepOld(a, b) ==
  [k \in (DOMAIN a) \cup (DOMAIN b) |-> IF k \in DOMAIN a THEN a[k] ELSE b[k]]

\* dict.update (line 333): entries of b win
DictUpdate(a, b) ==
  [k \in (DOMAIN a) \cup (DOMAIN b) |-> IF k \in DOMAIN b THEN b[k] ELSE a[k]]

-----------------------------------------------------------------------------
\* Pure helpers of process_files and get_audio_info

\* faulty variant: the sidecar extensions listed among the audio extensions
IsAudio_WithSidecars(f) == f.ext \in AudioExt \cup SidecarExt

\* line 384: the extension decides the class of a file
IsAudio(f) == f.ext \in AudioExt
IsSidecar(f) == f.ext \in SidecarExt

\* get_audio_info, lines 260-277: what it returns for the probe output of a
\* file with content c: the first token of format_name and bit_rate / 1000
ParseProbe(c) == <<Head(c.format_name), ToString(c.bit_rate \div 1000) \o "k">>

\* get_audio_info, lines 246-283: the possible results for path p: the parsed
\* output, the format without a bitrate (no bit_rate in the stream), or
\* (None, None) on any failure (missing file, timeout, non-zero exit, bad json)
get_audio_info(files, p, e) ==
  IF p \in DOMAIN files
  THEN IF e = "clean"
       THEN {ParseProbe(files[p])}
       ELSE {ParseProbe(files[p]), <<Head(files[p].format_name), None>>, <<None, None>>}
  ELSE {<<None, None>>}

\* line 390: truthiness of file_info
Truthy(info) == info.type \in {"dict", "str"}

\* faulty variant: the two comparisons of line 390 crossed
LockMatches_Crossed(info, music_format, bitrate) ==
  info.format = bitrate /\ info.bitrate = music_format

\* faulty variant: the ledger entry is compared by format alone
LockMatches_FormatOnly(info, music_format, bitrate) ==
  info.format = music_format

\* line 390: the ledger entry says the file is done for this format and bitrate
LockMatches(info, music_format, bitrate) ==
  info.format = music_format /\ info.bitrate = bitrate

\* faulty variant: a probe without a bitrate counts as a match
IsCorrect_AbsentBitrateMatches(probe, music_format, bitrate) ==
  probe[1] = music_format /\ probe[2] \in {bitrate, None}

\* line 399
IsCorrect(probe, music_format, bitrate) ==
  probe[1] = music_format /\ probe[2] = bitrate

\* os.walk, line 375: the directory of file f as the walk spells it, which
\* begins with input_path as it was given
root(f, r) == join(r.input_path, relative_path(f.dir))

\* line 377: os.path.join(root, file), the path under which the file is
\* looked up, recorded and listed
file_path(f, r) == Path(root(f, r), f.stem, f.ext)

\* line 379
target_dir(f, r) ==
  IF r.replace_mode THEN f.dir ELSE join(r.output_path, relative_path(f.dir))

\* os.makedirs(target_dir, exist_ok=True), lines 381-382: the directories
\* after the call for file f
makedirs(d, f, r) == IF r.replace_mode THEN d ELSE d \cup {r.output_path, target_dir(f, r)}

\* faulty variant: the output keeps the extension of the source
output_file_KeepsExt(f, r) ==
  IF r.replace_mode
  THEN Path(target_dir(f, r), f.stem \o "_temp", r.music_format)
  ELSE Path(target_dir(f, r), f.stem, f.ext)

\* lines 413, 415
output_file(f, r) ==
  IF r.replace_mode
  THEN Path(target_dir(f, r), f.stem \o "_temp", r.music_format)
  ELSE Path(target_dir(f, r), f.stem, r.music_format)

\* line 431
final_path(f, r) == Path(target_dir(f, r), f.stem, r.music_format)

\* lines 402-407, 438-443
NewEntry(r, ts, st) == Entry(r.music_format, r.bitrate, ts, st)

\* increment_count, lines 370-373
increment_count(fc, ext) ==
  [e \in (DOMAIN fc) \cup {ext} |-> IF e \in DOMAIN fc
                                     THEN (IF e = ext THEN fc[e] + 1 ELSE fc[e])
                                     ELSE 1]

\* os.walk(input_path), line 375: the files of the input directory and of its
\* subdirectory
Listing(files) == {p \in DOMAIN files : p.dir \in {input_path, InSub}}

-----------------------------------------------------------------------------
\* Initial states: a tree of original files, any ledger file content

InitPaths ==
  {Path(input_path, "a", e) : e \in AudioExt \cup SidecarExt \cup OtherExt}
    \cup {Path(InSub, "b", "jpg")}
    \cup {Path(OutDir, "a", e) : e \in AudioExt}

\* the directories that may exist before the first run: the input directory,
\* with or without the output directory
InitDirs == {{input_path}, {input_path, OutDir}}

LedgerKeys == {Path(input_path, "a", e) : e \in AudioExt}

\* the entries a ledger file may hold before the first run: those of two
\* earlier requests, and values that are no dict
InitEntries ==
  {Entry("mp3", "128k", 0, "converted"), Entry("flac", "192k", 0, "correct_format"),
   NonDictEntry("str"), NonDictEntry("null")}

InitLockFiles ==
  {LockFileOf(k, EmptyFn) : k \in {"absent", "garbage", "nonobject"}}
    \cup {LockFileOf("object", d) :
            d \in UNION {[K -> InitEntries] :
                           K \in {X \in SUBSET LedgerKeys : Cardinality(X) <= MaxLedger}}}

NoReq == [input_path |-> None, output_path |-> None, music_format |-> None, bitrate |-> None,
          replace_mode |-> FALSE]
NoCur == [file_path |-> None, output_file |-> None]

\* history of a run: what was probed (which probes failed or came back
\* without a format or a bitrate, which returned the requested format and
\* bitrate) and encoded, the state at its start, and how the previous run went
\* (its request, its end, and the files it encoded with exit code 0)
NewHist(files, d, lf, prevReq, prevEnd, prevOk) ==
  [probed |-> {}, unknown |-> {}, matched |-> {}, copyFailed |-> {},
   encoder |-> <<>>, fs0 |-> files, dirs0 |-> d,
   lock0 |-> lf, prevOk |-> prevOk,
   prevReq |-> prevReq, prevEnd |-> prevEnd, at |-> None, wrote |-> FALSE]

InitEnv(e) ==
  /\ env = e
  /\ \E S \in SUBSET InitPaths :
       /\ Cardinality(S) <= MaxFiles
       /\ fs = [p \in S |-> Orig(p)]
  /\ dirs \in InitDirs
  /\ \A p \in DOMAIN fs : p.dir \in dirs \cup {InSub}
  /\ lockFile \in InitLockFiles
  /\ pc = "idle"
  /\ run = 0
  /\ req = NoReq
  /\ todo = {}
  /\ converted_files_info = read_lock_file(LockFileOf("absent", EmptyFn))
  /\ new_conversions = EmptyFn
  /\ file_count = EmptyFn
  /\ converted_files = <<>>
  /\ skipped_files = <<>>
  /\ failed_files = <<>>
  /\ correct_files = <<>>
  /\ cur = NoCur
  /\ lock_data = EmptyFn
  /\ hist = NewHist(fs, dirs, lockFile, NoReq, None, {})

Init == InitEnv("faulty")

-----------------------------------------------------------------------------
\* A run of process_files

\* the command lines: sys.argv with the program name first
Prog == "convert.py"
Flag == "--replace"
InputArgs == {input_path, NoDir}
FormatArgs == valid_formats \cup {"xyz"}
BitrateArgs == valid_bitrates \cup {"1k"}
Invocations ==
  {<<Prog, i, OutDir, m, b>> : i \in InputArgs, m \in FormatArgs, b \in BitrateArgs}
    \cup {<<Prog, i, m, b, Flag>> : i \in InputArgs, m \in FormatArgs, b \in BitrateArgs}
    \cup {<<Prog, input_path>>, <<Prog, input_path, "mp3", "128k">>,
          <<Prog, input_path, "mp3", Flag>>,
          <<Prog, input_path, OutDir, "mp3", "128k", "128k">>}

\* the command lines that spell the input directory as an absolute path
AbsoluteInvocations ==
  {<<Prog, AbsInput, OutDir, m, b>> : m \in valid_formats, b \in valid_bitrates}
    \cup {<<Prog, AbsInput, m, b, Flag>> : m \in valid_formats, b \in valid_bitrates}

NotFlag(x) == x # Flag

\* validate_arguments, lines 145-167: the arguments, or ok = FALSE when the
\* process exits with code 1 (wrong count; with the flag among four arguments
\* sys.argv[3] is out of range, and the traceback ends the process with 1)
validate_arguments(argv) ==
  LET rest == SelectSeq(argv, NotFlag) IN
    IF Len(argv) \notin {4, 5} THEN [ok |-> FALSE, args |-> NoReq]
    ELSE IF Len(rest) < Len(argv)
    THEN IF Len(rest) < 4 THEN [ok |-> FALSE, args |-> NoReq]
         ELSE [ok |-> TRUE,
               args |-> [input_path |-> rest[2], output_path |-> rest[2],
                         music_format |-> rest[3], bitrate |-> rest[4],
                         replace_mode |-> TRUE]]
    ELSE IF Len(argv) # 5 THEN [ok |-> FALSE, args |-> NoReq]
         ELSE [ok |-> TRUE,
               args |-> [input_path |-> argv[2], output_path |-> argv[3],
                         music_format |-> argv[4], bitrate |-> argv[5],
                         replace_mode |-> FALSE]]

\* validate_paths_and_parameters, lines 182-201, on directories d: whether the
\* checks pass, and the directories after them; mk says whether os.makedirs
\* (line 188) succeeds when it is called
validate_paths_and_parameters(a, d, mk) ==
  IF Resolve(a.input_path) \notin d THEN [ok |-> FALSE, dirs |-> d]
  ELSE IF Resolve(a.output_path) \notin d /\ ~mk THEN [ok |-> FALSE, dirs |-> d]
  ELSE LET made == d \cup {Resolve(a.output_path)} IN
         IF a.music_format \notin valid_formats THEN [ok |-> FALSE, dirs |-> made]
         ELSE IF a.bitrate \notin valid_bitrates THEN [ok |-> FALSE, dirs |-> made]
         ELSE [ok |-> TRUE, dirs |-> made]

\* get_lock_file_path, lines 293-301: the file is created holding {} when it
\* is missing; when creating it fails (ok is false) the error is logged
get_lock_file_path(lf, ok) ==
  IF lf.kind = "absent" /\ ok THEN LockFileOf("object", EmptyFn) ELSE lf

\* lines 359-368 and the listing of os.walk (line 375), for request r, with
\* the directories d that validation left
BeginRun(r, d, ok) ==
  /\ LET lf == get_lock_file_path(lockFile, ok) IN
       /\ req' = r
       /\ lockFile' = lf
       /\ converted_files_info' = read_lock_file(lf)
       /\ hist' = NewHist(fs, dirs, lf, req, pc,
                          {hist.encoder[i].input :
                             i \in {j \in DOMAIN hist.encoder :
                                      hist.encoder[j].result = "ok"}})
  /\ dirs' = d
  /\ run' = run + 1
  /\ pc' = "walk"
  /\ todo' = Listing(fs)
  /\ new_conversions' = EmptyFn
  /\ file_count' = EmptyFn
  /\ converted_files' = <<>>
  /\ skipped_files' = <<>>
  /\ failed_files' = <<>>
  /\ correct_files' = <<>>
  /\ cur' = NoCur
  /\ lock_data' = EmptyFn
  /\ UNCHANGED <<fs, env>>

\* main, lines 505-518, for command line argv: the checks pass and
\* process_files begins
Main(argv, ok) ==
  LET a == validate_arguments(argv)
      v == validate_paths_and_parameters(a.args, dirs, TRUE) IN
    /\ a.ok
    /\ v.ok
    /\ BeginRun(a.args, v.dirs, ok)

\* the program is run on the tree
FirstRun ==
  /\ pc = "idle"
  /\ \E argv \in Invocations : Main(argv, TRUE)

\* the program is run and cannot create the missing ledger file
FirstRunNoLock ==
  /\ pc = "idle"
  /\ lockFile.kind = "absent"
  /\ \E argv \in Invocations : Main(argv, FALSE)

\* main, lines 505-506: a check fails and the process exits with code 1
ExitOnValidation ==
  /\ pc = "idle"
  /\ \E argv \in Invocations, mk \in BOOLEAN :
       LET a == validate_arguments(argv)
           v == validate_paths_and_parameters(a.args, dirs, mk) IN
         /\ ~a.ok \/ ~v.ok
         /\ req' = a.args
         /\ dirs' = IF a.ok THEN v.dirs ELSE dirs
  /\ pc' = "exit1"
  /\ UNCHANGED <<env, fs, lockFile, run, todo, converted_files_info, lock_data,
                 new_conversions, file_count, converted_files, skipped_files,
                 failed_files, correct_files, cur, hist>>

\* the program is run on the tree with the input directory spelled as an
\* absolute path
FirstRunAbsolute ==
  /\ pc = "idle"
  /\ \E argv \in AbsoluteInvocations : Main(argv, TRUE)

\* the program is run again on the same tree, in the same mode and for the
\* same format, with the same or another bitrate and with the input directory
\* spelled either way
Rerun ==
  /\ pc = "done"
  /\ run < MaxRuns
  /\ \E argv \in Invocations \cup AbsoluteInvocations :
       /\ validate_arguments(argv).ok
       /\ validate_arguments(argv).args.replace_mode = req.replace_mode
       /\ validate_arguments(argv).args.music_format = req.music_format
       /\ Main(argv, TRUE)

\* os.walk, line 375, is top-down: of the files t still to visit, those of
\* the input directory come before those of its subdirectory, in any order
Walk(t) ==
  IF \E f \in t : f.dir = input_path THEN {f \in t : f.dir = input_path} ELSE t

\* lines 376-382, for every file of the walk: the target directory is made
\* and the file is taken off the walk
Visited(f) ==
  /\ todo' = todo \ {f}
  /\ dirs' = makedirs(dirs, f, req)

lists == <<converted_files, skipped_files, failed_files, correct_files>>
runConst == <<pc, run, req, converted_files_info, lock_data, lockFile, env>>

\* lines 376-384, 458: a file of neither an audio nor a sidecar extension
VisitOther ==
  /\ pc = "walk"
  /\ \E f \in Walk(todo) :
       /\ ~IsAudio(f) /\ ~IsSidecar(f)
       /\ Visited(f)
  /\ UNCHANGED <<fs, runConst, new_conversions, file_count, lists, cur, hist>>

\* lines 458-459: a sidecar in replace mode is left alone
VisitSidecarReplace ==
  /\ pc = "walk"
  /\ req.replace_mode
  /\ \E f \in Walk(todo) :
       /\ IsSidecar(f)
       /\ Visited(f)
  /\ UNCHANGED <<fs, runConst, new_conversions, file_count, lists, cur, hist>>

\* lines 460-463: shutil.copy(file_path, target_dir) succeeds
VisitSidecarCopy ==
  /\ pc = "walk"
  /\ ~req.replace_mode
  /\ \E f \in Walk(todo) :
       /\ IsSidecar(f)
       /\ fs' = Write(fs, Path(target_dir(f, req), f.stem, f.ext), fs[f])
       /\ file_count' = increment_count(file_count, f.ext)
       /\ Visited(f)
  /\ UNCHANGED <<runConst, new_conversions, lists, cur, hist>>

\* faulty variant: the sidecar whose copy failed is counted
VisitSidecarCopyRaises_Counts ==
  /\ pc = "walk"
  /\ ~req.replace_mode
  /\ \E f \in Walk(todo) :
       /\ IsSidecar(f)
       /\ file_count' = increment_count(file_count, f.ext)
       /\ hist' = [hist EXCEPT !.copyFailed = @ \cup {f}]
       /\ Visited(f)
  /\ UNCHANGED <<fs, runConst, new_conversions, lists, cur>>

\* lines 460-465: shutil.copy raises an I/O error, which is logged
VisitSidecarCopyRaises ==
  /\ pc = "walk"
  /\ ~req.replace_mode
  /\ \E f \in Walk(todo) :
       /\ IsSidecar(f)
       /\ hist' = [hist EXCEPT !.copyFailed = @ \cup {f}]
       /\ Visited(f)
  /\ UNCHANGED <<fs, runConst, new_conversions, file_count, lists, cur>>

-----------------------------------------------------------------------------
\* Audio files, lines 387-455

\* line 389-390: converted_files_info.get and file_info.get raise AttributeError
\* when the loaded ledger, or a truthy entry, is no dict; nothing catches it
LookupRaises(info, f) ==
  \/ ~info.isdict
  \/ /\ f \in DOMAIN info.data
     /\ Truthy(info.data[f])
     /\ info.data[f].type # "dict"

\* lines 389-390: the file is skipped on the word of the ledger
SkippedPerLock(info, f, r) ==
  /\ info.isdict
  /\ f \in DOMAIN info.data
  /\ Truthy(info.data[f])
  /\ info.data[f].type = "dict"
  /\ LockMatches(info.data[f], r.music_format, r.bitrate)

Probed(h, f, probe) ==
  [h EXCEPT !.probed = @ \cup {f},
            !.unknown = IF None \in {probe[1], probe[2]} THEN @ \cup {f} ELSE @,
            !.matched = IF probe = <<req.music_format, req.bitrate>>
                        THEN @ \cup {f} ELSE @]
Encoder(h, f, probe, out, b, res) ==
  [Probed(h, f, probe) EXCEPT
     !.encoder = Append(@, [input |-> f, output |-> out, bitrate |-> b,
                            result |-> res])]

\* ffmpeg -i f -b:a b ... out (line 423): exit 0 with the output written, or a
\* non-zero exit with nothing or a partial output written; without -y it does
\* not overwrite an existing output and exits non-zero
ffmpeg(files, f, out, r) ==
  IF out \in DOMAIN files \/ f \notin DOMAIN files
  THEN {[result |-> "nonzero", fs |-> files]}
  ELSE {[result |-> "ok",
         fs |-> Write(files, out, Encoded(files[f], r.music_format, r.bitrate, "enc"))],
        [result |-> "nonzero", fs |-> files],
        [result |-> "nonzero",
         fs |-> Write(files, out, Encoded(files[f], r.music_format, r.bitrate, "part"))]}

\* lines 381-382: os.makedirs raises when the target directory is missing and
\* cannot be made (no permission, disk full, a file of that name); nothing
\* catches it and the run ends with a traceback
MakedirsRaises ==
  /\ pc = "walk"
  /\ ~req.replace_mode
  /\ \E f \in Walk(todo) :
       /\ target_dir(f, req) \notin dirs
       /\ todo' = todo \ {f}
  /\ pc' = "aborted"
  /\ UNCHANGED <<env, dirs, fs, lockFile, run, req, converted_files_info, lock_data,
                 new_conversions, file_count, lists, cur, hist>>

\* lines 389-390 raising: the run ends with a traceback
AbortOnLock ==
  /\ pc = "walk"
  /\ \E f \in Walk(todo) :
       /\ IsAudio(f)
       /\ LookupRaises(converted_files_info, file_path(f, req))
       /\ Visited(f)
  /\ pc' = "aborted"
  /\ UNCHANGED <<env, fs, lockFile, run, req, converted_files_info, lock_data,
                 new_conversions, file_count, lists, cur, hist>>

\* lines 390-394
SkipPerLock ==
  /\ pc = "walk"
  /\ \E f \in Walk(todo) :
       /\ IsAudio(f)
       /\ ~LookupRaises(converted_files_info, file_path(f, req))
       /\ SkippedPerLock(converted_files_info, file_path(f, req), req)
       /\ skipped_files' = Append(skipped_files, file_path(f, req))
       /\ file_count' = increment_count(file_count, f.ext)
       /\ Visited(f)
  /\ UNCHANGED <<fs, runConst, new_conversions, converted_files, failed_files,
                 correct_files, cur, hist>>

\* the file goes on to the probe (line 397)
ToProbe(f) ==
  /\ IsAudio(f)
  /\ ~LookupRaises(converted_files_info, file_path(f, req))
  /\ ~SkippedPerLock(converted_files_info, file_path(f, req), req)

\* faulty variant: the file already in the requested format gets no ledger
\* entry
CorrectFormat_NoEntry ==
  /\ pc = "walk"
  /\ \E f \in Walk(todo) :
       /\ ToProbe(f)
       /\ \E probe \in get_audio_info(fs, f, env) :
            /\ IsCorrect(probe, req.music_format, req.bitrate)
            /\ hist' = Probed(hist, f, probe)
       /\ correct_files' = Append(correct_files, file_path(f, req))
       /\ file_count' = increment_count(file_count, f.ext)
       /\ Visited(f)
  /\ UNCHANGED <<fs, runConst, new_conversions, converted_files, skipped_files,
                 failed_files, cur>>

\* lines 397-410
CorrectFormat ==
  /\ pc = "walk"
  /\ \E f \in Walk(todo) :
       /\ ToProbe(f)
       /\ \E probe \in get_audio_info(fs, f, env) :
            /\ IsCorrect(probe, req.music_format, req.bitrate)
            /\ hist' = Probed(hist, f, probe)
       /\ new_conversions' =
            DictUpdate(new_conversions, [k \in {file_path(f, req)} |-> NewEntry(req, run, "correct_format")])
       /\ correct_files' = Append(correct_files, file_path(f, req))
       /\ file_count' = increment_count(file_count, f.ext)
       /\ Visited(f)
  /\ UNCHANGED <<fs, runConst, converted_files, skipped_files, failed_files, cur>>

\* the probe returns probe and the file goes on to the target path (line 412)
ToConvert(f, probe) ==
  /\ ToProbe(f)
  /\ probe \in get_audio_info(fs, f, env)
  /\ ~IsCorrect(probe, req.music_format, req.bitrate)

\* faulty variant: the skip of an existing target also records a ledger entry
SkipExists_AddsEntry ==
  /\ pc = "walk"
  /\ \E f \in Walk(todo) : \E probe \in get_audio_info(fs, f, env) :
       /\ ToConvert(f, probe)
       /\ ~req.replace_mode
       /\ output_file(f, req) \in DOMAIN fs
       /\ skipped_files' = Append(skipped_files, file_path(f, req))
       /\ new_conversions' =
            DictUpdate(new_conversions, [k \in {file_path(f, req)} |-> NewEntry(req, run, "converted")])
       /\ hist' = Probed(hist, f, probe)
       /\ Visited(f)
  /\ UNCHANGED <<fs, runConst, file_count, converted_files,
                 failed_files, correct_files, cur>>

\* lines 415-419
SkipExists ==
  /\ pc = "walk"
  /\ \E f \in Walk(todo) : \E probe \in get_audio_info(fs, f, env) :
       /\ ToConvert(f, probe)
       /\ ~req.replace_mode
       /\ output_file(f, req) \in DOMAIN fs
       /\ skipped_files' = Append(skipped_files, file_path(f, req))
       /\ hist' = Probed(hist, f, probe)
       /\ Visited(f)
  /\ UNCHANGED <<fs, runConst, new_conversions, file_count, converted_files,
                 failed_files, correct_files, cur>>

\* faulty variant: the check of line 416 for an existing target left out
ToEncode_NoExistsCheck(f, probe) == ToConvert(f, probe)

\* the file goes on to the encoder (line 421)
ToEncode(f, probe) ==
  /\ ToConvert(f, probe)
  /\ req.replace_mode \/ output_file(f, req) \notin DOMAIN fs

\* faulty variant: the exit code is not checked before the source is removed
EncodeFails_RemovesSource ==
  /\ pc = "walk"
  /\ \E f \in Walk(todo) : \E probe \in get_audio_info(fs, f, env) :
       /\ ToEncode(f, probe)
       /\ \E o \in ffmpeg(fs, f, output_file(f, req), req) :
            /\ o.result = "nonzero"
            /\ fs' = IF req.replace_mode THEN Remove(o.fs, f) ELSE o.fs
       /\ failed_files' = Append(failed_files, file_path(f, req))
       /\ hist' = Encoder(hist, f, probe, output_file(f, req), req.bitrate, "nonzero")
       /\ Visited(f)
  /\ UNCHANGED <<runConst, new_conversions, file_count, converted_files,
                 skipped_files, correct_files, cur>>

\* lines 422-428, 445-448: ffmpeg exits non-zero
EncodeFails ==
  /\ pc = "walk"
  /\ \E f \in Walk(todo) : \E probe \in get_audio_info(fs, f, env) :
       /\ ToEncode(f, probe)
       /\ \E o \in ffmpeg(fs, f, output_file(f, req), req) :
            /\ o.result = "nonzero"
            /\ fs' = o.fs
       /\ failed_files' = Append(failed_files, file_path(f, req))
       /\ hist' = Encoder(hist, f, probe, output_file(f, req), req.bitrate, "nonzero")
       /\ Visited(f)
  /\ UNCHANGED <<runConst, new_conversions, file_count, converted_files,
                 skipped_files, correct_files, cur>>

\* lines 422-426, 450-453: subprocess.run raises
EncodeRaises ==
  /\ pc = "walk"
  /\ \E f \in Walk(todo) : \E probe \in get_audio_info(fs, f, env) :
       /\ ToEncode(f, probe)
       /\ failed_files' = Append(failed_files, file_path(f, req))
       /\ hist' = Encoder(hist, f, probe, output_file(f, req), req.bitrate, "raise")
       /\ Visited(f)
  /\ UNCHANGED <<fs, runConst, new_conversions, file_count, converted_files,
                 skipped_files, correct_files, cur>>

\* lines 422-428, 434-444, 455: copy mode, ffmpeg exits 0
EncodeCopy ==
  /\ pc = "walk"
  /\ ~req.replace_mode
  /\ \E f \in Walk(todo) : \E probe \in get_audio_info(fs, f, env) :
       /\ ToEncode(f, probe)
       /\ \E o \in ffmpeg(fs, f, output_file(f, req), req) :
            /\ o.result = "ok"
            /\ fs' = o.fs
       /\ new_conversions' =
            DictUpdate(new_conversions, [k \in {file_path(f, req)} |-> NewEntry(req, run, "converted")])
       /\ converted_files' = Append(converted_files, file_path(f, req))
       /\ file_count' = increment_count(file_count, f.ext)
       /\ hist' = Encoder(hist, f, probe, output_file(f, req), req.bitrate, "ok")
       /\ Visited(f)
  /\ UNCHANGED <<runConst, skipped_files, failed_files, correct_files, cur>>

\* lines 422-429: replace mode, ffmpeg exits 0; the source is removed next
EncodeReplace ==
  /\ pc = "walk"
  /\ req.replace_mode
  /\ \E f \in Walk(todo) : \E probe \in get_audio_info(fs, f, env) :
       /\ ToEncode(f, probe)
       /\ \E o \in ffmpeg(fs, f, output_file(f, req), req) :
            /\ o.result = "ok"
            /\ fs' = o.fs
       /\ cur' = [file_path |-> f, output_file |-> output_file(f, req)]
       /\ hist' = Encoder(hist, f, probe, output_file(f, req), req.bitrate, "ok")
       /\ Visited(f)
  /\ pc' = "remove"
  /\ UNCHANGED <<env, lockFile, run, req, converted_files_info, lock_data,
                 new_conversions, file_count, lists>>

\* line 430: os.remove(file_path)
RemoveSource ==
  /\ pc = "remove"
  /\ fs' = Remove(fs, cur.file_path)
  /\ pc' = "rename"
  /\ UNCHANGED <<env, dirs, lockFile, run, req, todo, converted_files_info, lock_data,
                 new_conversions, file_count, lists, cur, hist>>

\* lines 430, 450-453: os.remove raises
RemoveRaises ==
  /\ pc = "remove"
  /\ failed_files' = Append(failed_files, file_path(cur.file_path, req))
  /\ cur' = NoCur
  /\ pc' = "walk"
  /\ UNCHANGED <<env, dirs, fs, lockFile, run, req, todo, converted_files_info, lock_data,
                 new_conversions, file_count, converted_files, skipped_files,
                 correct_files, hist>>

\* os.rename (line 432) on POSIX: the target is replaced
rename(files, src, dst) ==
  IF src = dst THEN files ELSE Remove(Write(files, dst, files[src]), src)

\* lines 431-444, 455: the temporary output takes the final name
RenameOutput ==
  /\ pc = "rename"
  /\ fs' = rename(fs, cur.output_file, final_path(cur.file_path, req))
  /\ new_conversions' =
       DictUpdate(new_conversions,
                  [k \in {file_path(cur.file_path, req)} |-> NewEntry(req, run, "converted")])
  /\ converted_files' = Append(converted_files, file_path(cur.file_path, req))
  /\ file_count' = increment_count(file_count, cur.file_path.ext)
  /\ cur' = NoCur
  /\ pc' = "walk"
  /\ UNCHANGED <<env, dirs, lockFile, run, req, todo, converted_files_info, lock_data,
                 skipped_files, failed_files, correct_files, hist>>

\* lines 432, 450-453: os.rename raises
RenameRaises ==
  /\ pc = "rename"
  /\ failed_files' = Append(failed_files, file_path(cur.file_path, req))
  /\ cur' = NoCur
  /\ pc' = "walk"
  /\ UNCHANGED <<env, dirs, fs, lockFile, run, req, todo, converted_files_info, lock_data,
                 new_conversions, file_count, converted_files, skipped_files,
                 correct_files, hist>>

-----------------------------------------------------------------------------
\* End of the walk, lines 467-490, and update_lock_file, lines 321-338

\* line 468: nothing to persist; the summary is built and returned
FinishNoUpdate ==
  /\ pc = "walk"
  /\ todo = {}
  /\ new_conversions = EmptyFn
  /\ pc' = "done"
  /\ UNCHANGED <<env, dirs, fs, lockFile, run, req, todo, converted_files_info, lock_data,
                 new_conversions, file_count, lists, cur, hist>>

\* lines 331-335: the ledger is read again, merged, and the file is opened for
\* writing, which truncates it
UpdateLockOpen ==
  /\ pc = "walk"
  /\ todo = {}
  /\ new_conversions # EmptyFn
  /\ read_lock_file(lockFile).isdict
  /\ lock_data' = DictUpdate(read_lock_file(lockFile).data, new_conversions)
  /\ lockFile' = LockFileOf("empty", EmptyFn)
  /\ pc' = "dump"
  /\ UNCHANGED <<env, dirs, fs, run, req, todo, converted_files_info, new_conversions,
                 file_count, lists, cur, hist>>

\* lines 331-338: lock_data.update or open raises; the error is logged
UpdateLockRaises ==
  /\ pc = "walk"
  /\ todo = {}
  /\ new_conversions # EmptyFn
  /\ pc' = "done"
  /\ UNCHANGED <<env, dirs, fs, lockFile, run, req, todo, converted_files_info, lock_data,
                 new_conversions, file_count, lists, cur, hist>>

\* line 336: json.dump writes the whole merged ledger
UpdateLockDump ==
  /\ pc = "dump"
  /\ lockFile' = LockFileOf("object", lock_data)
  /\ pc' = "done"
  /\ hist' = [hist EXCEPT !.wrote = TRUE]
  /\ UNCHANGED <<env, dirs, fs, run, req, todo, converted_files_info, lock_data,
                 new_conversions, file_count, lists, cur>>

\* lines 336-338: json.dump raises part way (disk full); the error is logged
UpdateLockDumpRaises ==
  /\ pc = "dump"
  /\ lockFile' = LockFileOf("partial", EmptyFn)
  /\ pc' = "done"
  /\ UNCHANGED <<env, dirs, fs, run, req, todo, converted_files_info, lock_data,
                 new_conversions, file_count, lists, cur, hist>>

\* the process is killed (power loss, ctrl-c) while it runs
Crash ==
  /\ pc \in {"walk", "remove", "rename", "dump"}
  /\ hist' = [hist EXCEPT !.at = pc]
  /\ pc' = "crashed"
  /\ UNCHANGED <<env, dirs, fs, lockFile, run, req, todo, converted_files_info, lock_data,
                 new_conversions, file_count, lists, cur>>

\* the steps of a run in which every tool and every file operation succeeds
WalkOk ==
  \/ VisitOther \/ VisitSidecarReplace \/ VisitSidecarCopy
  \/ SkipPerLock \/ CorrectFormat \/ SkipExists
  \/ EncodeCopy \/ EncodeReplace \/ RemoveSource \/ RenameOutput
  \/ FinishNoUpdate \/ UpdateLockOpen \/ UpdateLockDump

\* the steps in which the encoder, a file operation or the ledger fails
Failure ==
  \/ FirstRunNoLock \/ ExitOnValidation \/ MakedirsRaises
  \/ VisitSidecarCopyRaises \/ AbortOnLock
  \/ EncodeFails \/ EncodeRaises \/ RemoveRaises \/ RenameRaises
  \/ UpdateLockRaises \/ UpdateLockDumpRaises

\* one run of the program, from any tree and any ledger file; anything may
\* fail and the process may be killed at any point
Next == FirstRun \/ WalkOk \/ Failure \/ Crash

Spec == Init /\ [][Next]_vars

\* repeated runs over the same tree, starting without a ledger and with an
\* empty output directory, in which nothing fails but the probe
InitRerun ==
  /\ InitEnv("clean")
  /\ lockFile.kind = "absent"
  /\ \A p \in DOMAIN fs : p.dir \in {input_path, InSub}
  /\ Cardinality(DOMAIN fs) <= MaxRerunFiles
  /\ dirs = {input_path}

NextRerun == FirstRun \/ FirstRunAbsolute \/ Rerun \/ WalkOk

SpecRerun == InitRerun /\ [][NextRerun]_vars

-----------------------------------------------------------------------------
\* Vocabulary of the properties.  In the runs of Spec the input directory is
\* given as the tree names it, so that file_path(f, req) = f for every file f
\* of the walk; the properties of SpecRerun, where the spelling varies, name
\* file_path.

SeqSet(s) == {s[i] : i \in DOMAIN s}
Occurrences(s, x) == Cardinality({i \in DOMAIN s : s[i] = x})

\* the audio files the walk of this run discovers
Discovered == Listing(hist.fs0)
DiscoveredAudio == {f \in Discovered : IsAudio(f)}

\* the files ffmpeg was run on in this run, and those it converted with exit 0
EncoderInputs == {hist.encoder[i].input : i \in DOMAIN hist.encoder}
EncodedOk == {hist.encoder[i].input :
                i \in {j \in DOMAIN hist.encoder : hist.encoder[j].result = "ok"}}
EncodeFailed == {hist.encoder[i].input :
                   i \in {j \in DOMAIN hist.encoder : hist.encoder[j].result # "ok"}}

\* the exit code of the process: 0 when main returns, 1 on sys.exit(1) and on
\* an uncaught exception, -1 while it runs or when it was killed
exit_code ==
  IF pc = "done" THEN 0 ELSE IF pc \in {"exit1", "aborted"} THEN 1 ELSE -1

InRun == pc \in {"walk", "remove", "rename", "dump", "done", "aborted", "crashed"}

-----------------------------------------------------------------------------
\* C1 (stated as claimed): when the program is run a second time with the same
\* request on the tree the first run left, the second run never runs the
\* encoder, records nothing as converted, failed or correct, and at its end
\* every audio file it discovered is in skipped_files.
C1_Idempotent ==
  (run >= 2 /\ hist.prevEnd = "done" /\ hist.prevReq = req) =>
     /\ hist.encoder = <<>>
     /\ converted_files = <<>>
     /\ failed_files = <<>>
     /\ correct_files = <<>>
     /\ pc = "done" =>
          {file_path(f, req) : f \in DiscoveredAudio} \subseteq SeqSet(skipped_files)

-----------------------------------------------------------------------------
\* The files whose loaded ledger entry matches the request of the run
LedgerDone ==
  {f \in DiscoveredAudio :
     /\ converted_files_info.isdict
     /\ file_path(f, req) \in DOMAIN converted_files_info.data
     /\ converted_files_info.data[file_path(f, req)].type = "dict"
     /\ converted_files_info.data[file_path(f, req)].format = req.music_format
     /\ converted_files_info.data[file_path(f, req)].bitrate = req.bitrate}

\* C2, the record: a file whose loaded ledger entry has the requested format
\* and bitrate is never probed and never given to the encoder, it is in none
\* of converted, failed and correct, and once visited it is in skipped_files
\* exactly once.
C2_Recorded ==
  InRun =>
    \A f \in LedgerDone :
       /\ f \notin hist.probed
       /\ f \notin EncoderInputs
       /\ f \notin SeqSet(converted_files) \cup SeqSet(failed_files)
                     \cup SeqSet(correct_files)
       /\ f \notin DOMAIN new_conversions
       /\ f \notin todo => Occurrences(skipped_files, f) = 1

\* C2, the effect: the step that visits such a file changes no file on disk
\* (the file is neither deleted, renamed nor rewritten) and not the ledger.
C2_NoIO ==
  \A f \in LedgerDone :
     (f \in todo /\ f \notin todo') => (fs' = fs /\ lockFile' = lockFile)

\* C2: ledger authority: a file whose loaded ledger entry has the requested
\* format and bitrate is recorded as skipped, and no I/O is done for it: no
\* probe, no encoder, and its visit changes nothing on disk.
C2_LedgerAuthority == [](C2_Recorded) /\ [][C2_NoIO]_vars

\* C2 witness: a run visited a file on the word of its ledger entry
C2_Witness ==
  /\ pc = "done"
  /\ \E f \in LedgerDone : f \in SeqSet(skipped_files) /\ f \in DOMAIN fs

-----------------------------------------------------------------------------
\* C3 (stated as claimed): for every file the encoder converted in replace
\* mode, in every state the source path or the final path exists.
C3_ReplaceAtomic ==
  (InRun /\ req.replace_mode) =>
    \A f \in EncodedOk : f \in DOMAIN fs \/ final_path(f, req) \in DOMAIN fs

-----------------------------------------------------------------------------
\* The audio files of a copy-mode run whose target file exists before the run
TargetExisted ==
  {f \in DiscoveredAudio :
     ~req.replace_mode /\ output_file(f, req) \in DOMAIN hist.fs0}

TargetKept(f) ==
  /\ output_file(f, req) \in DOMAIN fs
  /\ fs[output_file(f, req)] = hist.fs0[output_file(f, req)]

\* C4 (stated as claimed): in copy mode a source whose target exists before
\* the run never has the target overwritten and is, at the end of the run, in
\* skipped_files, whatever the ledger holds and whatever the probe returns.
C4_AlwaysSkipped ==
  InRun =>
    \A f \in TargetExisted :
       /\ TargetKept(f)
       /\ pc = "done" => f \in SeqSet(skipped_files)

\* C4 (amended): in copy mode a source whose target exists before the run
\* never has the target overwritten and is never given to the encoder; at the
\* end of the run it is in skipped_files, except that a source without a
\* matching ledger entry whose probe reports the requested format and bitrate
\* is in correct_files (with a ledger entry) instead.
C4_NonClobber ==
  InRun =>
    \A f \in TargetExisted :
       /\ TargetKept(f)
       /\ f \notin EncoderInputs
       /\ f \notin SeqSet(converted_files) \cup SeqSet(failed_files)
       /\ f \in SeqSet(correct_files) =>
            /\ f \notin LedgerDone
            /\ IsCorrect(ParseProbe(hist.fs0[f]), req.music_format, req.bitrate)
            /\ f \in DOMAIN new_conversions
       /\ pc = "done" =>
            Occurrences(skipped_files, f) + Occurrences(correct_files, f) = 1

\* C4 witness: a run ended with such a source in correct_files, another with
\* such a source in skipped_files after its probe
C4_Witness ==
  /\ pc = "done"
  /\ \E f \in TargetExisted :
       \/ f \in SeqSet(correct_files)
       \/ f \in SeqSet(skipped_files) /\ f \in hist.probed

-----------------------------------------------------------------------------
\* C5, the record: a file on which the encoder exited non-zero or raised is in
\* failed_files, has no new ledger entry and is not in converted_files; a
\* discovered file is missing from the disk only if the encoder exited 0 on
\* it; in copy mode the failed source still has its content.
C5_Recorded ==
  InRun =>
    /\ \A f \in EncodeFailed :
         /\ Occurrences(failed_files, f) = 1
         /\ f \notin DOMAIN new_conversions
         /\ f \notin SeqSet(converted_files)
         /\ f \in DOMAIN fs
         /\ ~req.replace_mode => fs[f] = hist.fs0[f]
    /\ \A f \in Discovered : f \notin DOMAIN fs => f \in EncodedOk

\* C5, the effect: the step in which the encoder fails on a file leaves the
\* file on disk with its content, and removes no file.
C5_SourceKept ==
  (Len(hist'.encoder) > Len(hist.encoder)
     /\ hist'.encoder[Len(hist'.encoder)].result # "ok") =>
       LET f == hist'.encoder[Len(hist'.encoder)].input IN
         /\ f \in DOMAIN fs'
         /\ fs'[f] = fs[f]
         /\ DOMAIN fs \subseteq DOMAIN fs'

\* C5: encode failure handling: when the encoder exits non-zero or raises, the
\* source is left on disk unchanged, the file is recorded failed, it gets no
\* ledger entry, and a source is deleted only after the encoder exited 0.
C5_EncodeFailure == [](C5_Recorded) /\ [][C5_SourceKept]_vars

\* C5 witness: the encoder failed on a file in replace mode, and in the same
\* run another source was deleted after a successful encode
C5_Witness ==
  /\ req.replace_mode
  /\ EncodeFailed # {}
  /\ \E f \in EncodedOk : f \notin DOMAIN fs

-----------------------------------------------------------------------------
Outcomes == converted_files \o skipped_files \o correct_files \o failed_files

\* C6: outcome partition: at the end of a run every discovered audio file
\* occurs exactly once in converted, skipped, correct and failed taken
\* together, and no other file occurs in them.
C6_OutcomePartition ==
  pc = "done" =>
    /\ \A f \in DiscoveredAudio : Occurrences(Outcomes, f) = 1
    /\ SeqSet(Outcomes) \subseteq DiscoveredAudio

\* C6 witness: a run ended on a tree with an audio file and a sidecar
C6_Witness ==
  /\ pc = "done"
  /\ DiscoveredAudio # {}
  /\ \E f \in Discovered : IsSidecar(f)

-----------------------------------------------------------------------------
\* C7: new ledger entries are produced for exactly the converted and the
\* correct files, with status converted and correct_format; skipped and failed
\* files get none.
C7_LedgerEntries ==
  InRun =>
    /\ DOMAIN new_conversions = SeqSet(converted_files) \cup SeqSet(correct_files)
    /\ \A f \in SeqSet(converted_files) : new_conversions[f].status = "converted"
    /\ \A f \in SeqSet(correct_files) : new_conversions[f].status = "correct_format"
    /\ \A f \in SeqSet(skipped_files) \cup SeqSet(failed_files) :
         f \notin DOMAIN new_conversions

\* C7 witness: a run with a converted file, and a file skipped because its
\* target exists
C7_Witness ==
  /\ pc = "done"
  /\ converted_files # <<>>
  /\ \E f \in SeqSet(skipped_files) : f \in hist.probed

-----------------------------------------------------------------------------
\* C8 (stated as claimed): when the process is killed inside update_lock_file
\* the ledger file is the complete old snapshot or the complete new one.
C8_AllOrNothing ==
  (pc = "crashed" /\ hist.at = "dump") =>
     \/ lockFile = hist.lock0
     \/ lockFile = LockFileOf("object", lock_data)

-----------------------------------------------------------------------------
\* C9 (stated as claimed): whatever the ledger file holds, the load gives no
\* history for the paths it cannot read and the run is never aborted.
C9_NeverAborts ==
  InRun =>
    /\ hist.lock0.kind # "object" => converted_files_info.data = EmptyFn
    /\ pc # "aborted"

-----------------------------------------------------------------------------
\* the ledger L the run found and the ledger L overridden by the new entries N
PriorLedger == read_lock_file(hist.lock0).data
Merged ==
  [k \in (DOMAIN PriorLedger) \cup (DOMAIN new_conversions) |->
     IF k \in DOMAIN new_conversions THEN new_conversions[k] ELSE PriorLedger[k]]

-----------------------------------------------------------------------------
\* the files of a copy-mode run that were skipped because their target exists
SkippedExists ==
  {f \in SeqSet(skipped_files) :
     ~req.replace_mode /\ f \in hist.probed /\ output_file(f, req) \in DOMAIN fs}

\* C11: probe failure is fail-open: a file whose probe failed, or came back
\* without a format or without a bitrate, is handled past the probe (no
\* exception ends the run at it), is never in correct_files, gets no
\* correct_format ledger entry, and goes on to the target-path step: it is
\* given to the encoder, or in copy mode skipped because its target exists.
C11_ProbeFailOpen ==
  InRun =>
    \A f \in hist.unknown :
       /\ f \notin todo
       /\ f \notin SeqSet(correct_files)
       /\ f \in DOMAIN new_conversions => new_conversions[f].status # "correct_format"
       /\ f \in EncoderInputs \cup SkippedExists

\* C11 witness: a file that has the requested format and bitrate, whose probe
\* failed, was encoded and recorded converted
C11_Witness ==
  /\ pc = "done"
  /\ \E f \in hist.unknown :
       /\ IsCorrect(ParseProbe(hist.fs0[f]), req.music_format, req.bitrate)
       /\ f \in SeqSet(converted_files)

-----------------------------------------------------------------------------
\* the ledger the run loaded can be looked up for every audio file of the walk
LedgerSound ==
  \A f \in DiscoveredAudio : ~LookupRaises(converted_files_info, file_path(f, req))

\* C12 (stated as claimed): once the checks of main have passed and the
\* ledger is sound, no error raised while a file is handled ends the run:
\* the process never ends with a traceback, and when it ends it has visited
\* every file and its exit code is 0.
C12_Isolated ==
  (InRun /\ LedgerSound) =>
     /\ pc # "aborted"
     /\ exit_code \in {-1, 0}
     /\ pc = "done" => todo = {}

-----------------------------------------------------------------------------
\* C13 (stated as claimed): when a check of main fails, the process exits
\* with code 1 and has created, changed or deleted no file, no directory and
\* not the ledger file.
C13_NothingTouched ==
  pc = "exit1" =>
     /\ exit_code = 1
     /\ fs = hist.fs0
     /\ dirs = hist.dirs0
     /\ lockFile = hist.lock0

-----------------------------------------------------------------------------
\* C14, the record: a file whose probe returned the requested format and
\* bitrate is never given to the encoder, is in correct_files exactly once and
\* in no other list, and has a new ledger entry with status correct_format
\* and the requested format and bitrate.
C14_Recorded ==
  InRun =>
    \A f \in hist.matched :
       /\ f \notin EncoderInputs
       /\ Occurrences(correct_files, f) = 1
       /\ f \notin SeqSet(converted_files) \cup SeqSet(skipped_files)
                     \cup SeqSet(failed_files)
       /\ f \in DOMAIN new_conversions
       /\ new_conversions[f].status = "correct_format"
       /\ new_conversions[f].format = req.music_format
       /\ new_conversions[f].bitrate = req.bitrate

\* C14, the effect: the step in which the probe of a file returns the
\* requested format and bitrate changes no file on disk.
C14_Unchanged ==
  hist'.matched # hist.matched => fs' = fs

\* C14: already-matching file: in either mode a file without a matching
\* ledger entry whose probe returns the requested format and bitrate is not
\* encoded, is recorded in correct_files with a correct_format ledger entry,
\* and is left unchanged.
C14_AlreadyMatching == [](C14_Recorded) /\ [][C14_Unchanged]_vars

\* C14 witness: a replace-mode run ended with such a file, unchanged on disk,
\* and its correct_format entry in the ledger file
C14_Witness ==
  /\ pc = "done"
  /\ req.replace_mode
  /\ \E f \in hist.matched :
       /\ f \in DOMAIN fs /\ fs[f] = hist.fs0[f]
       /\ lockFile.kind = "object"
       /\ f \in DOMAIN lockFile.data
       /\ lockFile.data[f].status = "correct_format"

-----------------------------------------------------------------------------
\* the path that mirrors file f of the input tree in the output tree, with the
\* target extension
Mirrored(f) ==
  Path(IF f.dir = input_path THEN OutDir ELSE OutDir \o "/" \o SubName,
       f.stem, req.music_format)

EncoderRuns(f) == {i \in DOMAIN hist.encoder : hist.encoder[i].input = f}

\* C15: successful copy-mode conversion: in copy mode, a file on which the
\* encoder exited 0 had no matching ledger entry, a probe that did not match,
\* and no target file before the run; the encoder ran exactly once on it,
\* with the requested bitrate and the mirrored path as output; the source is
\* unchanged, the target exists with the encoded content, the file is in
\* converted exactly once and in no other list, it has a new ledger entry with
\* status converted, and a ledger file written at the end holds that entry.
C15_CopyConversion ==
  (InRun /\ ~req.replace_mode) =>
    \A f \in EncodedOk :
       /\ f \notin LedgerDone /\ f \in hist.probed /\ f \notin hist.matched
       /\ Mirrored(f) \notin DOMAIN hist.fs0
       /\ Cardinality(EncoderRuns(f)) = 1
       /\ \A i \in EncoderRuns(f) :
            /\ hist.encoder[i].bitrate = req.bitrate
            /\ hist.encoder[i].output = Mirrored(f)
       /\ f \in DOMAIN fs /\ fs[f] = hist.fs0[f]
       /\ Mirrored(f) \in DOMAIN fs
       /\ fs[Mirrored(f)] = Encoded(hist.fs0[f], req.music_format, req.bitrate, "enc")
       /\ Occurrences(converted_files, f) = 1
       /\ f \notin SeqSet(skipped_files) \cup SeqSet(correct_files)
                     \cup SeqSet(failed_files)
       /\ f \in DOMAIN new_conversions
       /\ new_conversions[f] = NewEntry(req, run, "converted")
       /\ (pc = "done" /\ hist.wrote) =>
            /\ f \in DOMAIN lockFile.data
            /\ lockFile.data[f] = new_conversions[f]

\* C15 witness: a copy-mode run converted a file whose probe had failed, and
\* wrote its entry to the ledger file
C15_Witness ==
  /\ pc = "done"
  /\ ~req.replace_mode
  /\ hist.wrote
  /\ \E f \in EncodedOk :
       /\ f \in hist.unknown
       /\ lockFile.data[f].status = "converted"

-----------------------------------------------------------------------------
\* the path that mirrors sidecar f of the input tree in the output tree
MirroredCopy(f) ==
  Path(IF f.dir = input_path THEN OutDir ELSE OutDir \o "/" \o SubName,
       f.stem, f.ext)

\* the paths of the two trees with an extension of the set E
PathsOf(files, E) == {p \in DOMAIN files : p.ext \in E}
SameFiles(E) ==
  /\ PathsOf(fs, E) = PathsOf(hist.fs0, E)
  /\ \A p \in PathsOf(fs, E) : fs[p] = hist.fs0[p]

Count(E) ==
  LET n[S \in SUBSET (DOMAIN file_count)] ==
        IF S = {} THEN 0
        ELSE LET e == CHOOSE x \in S : TRUE IN
               (IF e \in E THEN file_count[e] ELSE 0) + n[S \ {e}]
  IN n[DOMAIN file_count]

CopiedSidecars == {f \in Discovered : IsSidecar(f) /\ f \notin todo \cup hist.copyFailed}

\* C16, the record: files of another non-audio extension are never created,
\* changed, deleted or counted; in replace mode the same holds of the
\* sidecars; in copy mode the sidecars of the input tree are never changed,
\* the count of sidecars is the number of sidecars copied without error, and
\* at the end of a run every sidecar whose copy did not fail is, with its
\* content, at the mirrored path of the output tree.
C16_Recorded ==
  InRun =>
    /\ SameFiles(OtherExt) /\ Count(OtherExt) = 0
    /\ req.replace_mode => (SameFiles(SidecarExt) /\ Count(SidecarExt) = 0)
    /\ ~req.replace_mode =>
         /\ \A f \in Discovered : IsSidecar(f) => (f \in DOMAIN fs /\ fs[f] = hist.fs0[f])
         /\ pc # "aborted" => Count(SidecarExt) = Cardinality(CopiedSidecars)
         /\ pc = "done" =>
              \A f \in CopiedSidecars :
                 /\ MirroredCopy(f) \in DOMAIN fs
                 /\ fs[MirroredCopy(f)] = hist.fs0[f]

\* C16, the effect: the step in which the copy of a sidecar fails changes no
\* file and no count, and the walk goes on.
C16_CopyFailure ==
  hist'.copyFailed # hist.copyFailed =>
    (fs' = fs /\ file_count' = file_count /\ pc' = "walk")

\* C16: sidecar handling: replace mode leaves the sidecars alone and does not
\* count them; copy mode copies every sidecar into the mirrored directory, a
\* failed copy is not counted and does not stop the walk; files of other
\* non-audio extensions are never copied and never counted.
C16_Sidecars == [](C16_Recorded) /\ [][C16_CopyFailure]_vars

\* C16 witness: a copy-mode run ended in which the copy of one sidecar failed
\* and the sidecar of the subdirectory was copied into the mirrored directory
C16_Witness ==
  /\ pc = "done"
  /\ ~req.replace_mode
  /\ hist.copyFailed # {}
  /\ \E f \in CopiedSidecars : f.dir = InSub /\ MirroredCopy(f) \in DOMAIN fs

-----------------------------------------------------------------------------
\* the paths under which file f is recorded, one for each spelling of the
\* input directory
KeysOf(f) == {file_path(f, [input_path |-> i]) : i \in {input_path, AbsInput}}

\* the files of the walk that an earlier run recorded with the format and
\* bitrate now requested, under either spelling
RecordedBefore ==
  {f \in DiscoveredAudio :
     \E k \in KeysOf(f) \cap DOMAIN PriorLedger :
        /\ PriorLedger[k].format = req.music_format
        /\ PriorLedger[k].bitrate = req.bitrate}

\* C17 (stated as claimed): a file that an earlier run recorded with the
\* requested format and bitrate is found in the ledger however the input
\* directory is spelled in this run: it is never probed, and once visited it
\* is in skipped_files.
C17_SpellingIndependent ==
  (run >= 2 /\ hist.prevEnd = "done") =>
    \A f \in RecordedBefore :
       /\ f \notin hist.probed
       /\ f \notin todo => file_path(f, req) \in SeqSet(skipped_files)

-----------------------------------------------------------------------------
\* the files of the walk recorded in failed_files
Failed == {f \in Discovered : file_path(f, req) \in SeqSet(failed_files)}

\* C18 (stated as claimed): at the end of a run every file recorded in
\* failed_files still exists at its source path.
C18_FailedSourceKept ==
  pc = "done" => \A f \in Failed : f \in DOMAIN fs

-----------------------------------------------------------------------------
\* the content of original file f survives: as the original at its path, or
\* as its own converted file at its final path
Survives(f) ==
  \/ f \in DOMAIN fs /\ fs[f] = hist.fs0[f]
  \/ /\ final_path(f, req) \in DOMAIN fs
     /\ fs[final_path(f, req)].of = hist.fs0[f].of
     /\ fs[final_path(f, req)].kind = "enc"

\* C19 (stated as claimed): after a replace-mode run in which nothing
\* failed, the content of every audio file the walk discovered survives, as
\* the original or as its own converted file: no conversion overwrote or
\* destroyed another file of the tree.
C19_OnlySourceTouched ==
  (pc = "done" /\ req.replace_mode /\ failed_files = <<>>) =>
     \A f \in DiscoveredAudio : Survives(f)

-----------------------------------------------------------------------------
\* C20 (stated as claimed): after a copy-mode run in which no file is
\* recorded failed, every audio file of the input tree has a file at its
\* mirrored path with the target extension in the output tree.
C20_OutputComplete ==
  (pc = "done" /\ ~req.replace_mode /\ failed_files = <<>>) =>
     \A f \in DiscoveredAudio : Mirrored(f) \in DOMAIN fs

-----------------------------------------------------------------------------
\* line 473: sum(file_count.values()), reported as "Total files processed"
TotalProcessed == Count(AudioExt \cup SidecarExt \cup OtherExt)

\* C21 (stated as claimed): at the end of a run the sum of the counts per
\* extension is the number of audio files in converted, skipped, correct and
\* failed plus the number of sidecars copied.
C21_CountsConsistent ==
  pc = "done" => TotalProcessed = Len(Outcomes) + Cardinality(CopiedSidecars)

-----------------------------------------------------------------------------
\* this run is a copy-mode run that follows a completed copy-mode run for the
\* same format and requests another bitrate
Rebitrated ==
  /\ run >= 2 /\ hist.prevEnd = "done"
  /\ ~req.replace_mode /\ ~hist.prevReq.replace_mode
  /\ req.music_format = hist.prevReq.music_format
  /\ req.bitrate # hist.prevReq.bitrate

\* the ledger file holds, under path k, an entry with bitrate b
Holds(k, b) ==
  /\ lockFile.kind = "object"
  /\ k \in DOMAIN lockFile.data
  /\ lockFile.data[k].bitrate = b

\* in this run file P was handled as stale in the ledger and skipped because
\* its target exists, without an encoder run and without a new ledger entry
SkippedAsExisting(P) ==
  /\ P \in hist.probed
  /\ P \notin EncoderInputs
  /\ Occurrences(skipped_files, file_path(P, req)) = 1
  /\ file_path(P, req) \notin DOMAIN new_conversions
  /\ TargetKept(P)

SkippedAsRecorded(P) ==
  /\ P \notin hist.probed
  /\ P \notin EncoderInputs
  /\ Occurrences(skipped_files, file_path(P, req)) = 1
  /\ file_path(P, req) \notin DOMAIN new_conversions

====
